---- MODULE Spec2Model ----
(***************************************************************************)
(* A model of create_issues_from_json.py: one run of main(), from the      *)
(* existence check of .github/project_tasks.json to the exit of the        *)
(* process.                                                                *)
(*                                                                         *)
(* A Python str is a sequence of symbols.  A symbol is one character, or   *)
(* one run of literal text of the script that holds no double quote, no    *)
(* backslash and no newline (so that str.replace and the JSON encoder,     *)
(* which act on those three characters, leave it as it is).  A Python dict *)
(* is a function whose DOMAIN is the set of keys present; the top-level    *)
(* dict, whose iteration order matters, is the sequence of its items.      *)
(***************************************************************************)
EXTENDS Integers, Sequences, FiniteSets

\* ------------------------------------------------------------------ bounds

\* The most milestones, and the most tasks (over all its milestones), of a
\* document of the input family.
MaxMilestones == 2
MaxTasks == 3

\* ----------------------------------------------------------------- symbols

NL == "\n"
QUOTE == "\""
BSLASH == "\\"

\* ----------------------------------------------------------- input family

TaskFields == {"name", "description", "success_criteria", "unit_tests", "status"}

\* Two complete tasks: one of plain text, one whose fields hold double quotes,
\* newlines, backslashes (before an n and before a quote) and the empty string.
PlainTask ==
    [name |-> <<"S", "e", "t", "u", "p">>,
     description |-> <<"D", "o", " ", "X">>,
     success_criteria |-> <<"X", " ", "w", "o", "r", "k", "s">>,
     unit_tests |-> <<"t", "(", ")">>,
     status |-> <<"o", "p", "e", "n">>]

SpecialTask ==
    [name |-> <<"a", QUOTE, NL, "b">>,
     description |-> <<QUOTE, NL, BSLASH, "n", QUOTE>>,
     success_criteria |-> <<BSLASH, QUOTE, BSLASH>>,
     unit_tests |-> <<>>,
     status |-> <<NL>>]

Tasks == {PlainTask, SpecialTask}

\* The i-th milestone's key and phase: the keys of one mapping are distinct.
KeyPool ==
    << <<"M", "1">>, <<"[", QUOTE, "]">>, <<"M", NL>>, <<>>, <<"M", "5">> >>

PhasePool ==
    << <<"P", "h", "a", "s", "e", " ", "1">>, <<QUOTE, BSLASH, NL>>, <<>>,
       <<"P", "3">>, <<"P", "4">> >>

\* The sequences over S of length n, and of length at most n.
SeqsOfLen(S, n) == [1..n -> S]

SeqsUpTo(S, n) == UNION {SeqsOfLen(S, k) : k \in 0..n}

\* The well-formed documents whose milestones are number i and later, m
\* milestones at most, with k tasks at most over all of them.
RECURSIVE DocsFrom(_, _, _)
DocsFrom(i, m, k) ==
    IF m = 0 THEN {<<>>}
    ELSE {<<>>} \cup
         UNION {{<< <<KeyPool[i], [phase |-> PhasePool[i], tasks |-> ts]>> >> \o rest
                    : rest \in DocsFrom(i + 1, m - 1, k - Len(ts))}
                : ts \in SeqsUpTo(Tasks, k)}

WellFormedDocs == DocsFrom(1, MaxMilestones, MaxTasks)

\* d without key k (a JSON object that lacks the member).
Without(d, k) == [x \in (DOMAIN d) \ {k} |-> d[x]]

\* The places of a document where a key may be absent: <<i, key>> in the
\* i-th milestone, <<i, j, field>> in its j-th task.
Slots(doc) ==
    {<<i, k>> : i \in 1..Len(doc), k \in {"phase", "tasks"}}
    \cup UNION {{<<i, j, f>> : j \in 1..Len(doc[i][2].tasks), f \in TaskFields}
                   : i \in 1..Len(doc)}

Lacking(doc, slot) ==
    LET i == slot[1]
        data == doc[i][2]
    IN  IF Len(slot) = 2
        THEN [doc EXCEPT ![i] = <<doc[i][1], Without(data, slot[2])>>]
        ELSE [doc EXCEPT ![i] =
                <<doc[i][1],
                  [data EXCEPT !.tasks =
                      [data.tasks EXCEPT ![slot[2]] = Without(@, slot[3])]]>>]

\* doc without the keys at the places of ps.
RECURSIVE LackingAll(_, _)
LackingAll(doc, ps) ==
    IF ps = {} THEN doc
    ELSE LET p == CHOOSE x \in ps : TRUE
         IN  LackingAll(Lacking(doc, p), ps \ {p})

\* The sets of places where a document of the input family lacks a key: none,
\* one place, or one place and the status of a task (of a milestone that
\* keeps its tasks).
Defects(doc) ==
    {{}} \cup {{p} : p \in Slots(doc)}
    \cup UNION {{{p, q} : q \in {x \in Slots(doc) :
                                  /\ Len(x) = 3
                                  /\ x[3] = "status"
                                  /\ \/ Len(p) = 3
                                     \/ p[1] # x[1]
                                     \/ p[2] # "tasks"}}
                   : p \in Slots(doc)}

\* What the file holds: text that is no JSON ("{not valid json"), or the JSON
\* text of a document.
NotJSON == [json |-> FALSE, value |-> <<>>]

JSONOf(doc) == [json |-> TRUE, value |-> doc]

\* ------------------------------------------------------------------- state

VARIABLES
    pc,             \* the statement main() is at
    file_exists,    \* whether .github/project_tasks.json exists
    file_content,   \* what it holds: NotJSON, or the JSON text of a document
    bound,          \* the local names of main() that are assigned
    project_tasks,  \* main's project_tasks
    m,              \* generate_issues_data: the milestone of the outer loop
    t,              \* generate_issues_data: the task of the inner loop
    phase,          \* generate_issues_data: phase
    tasks,          \* generate_issues_data: tasks
    acc,            \* generate_issues_data: its local list issues
    issues,         \* main's issues
    i,              \* the issue of the loop of display_issues or of
                    \* generate_github_cli_commands
    json_output,    \* main's json_output
    stdout,         \* the print calls so far: [line, i, text]
    error,          \* <<>>, or the uncaught exception that ended the process
    exit_code       \* <<>> while the process runs, then <<its exit status>>

vars == <<pc, file_exists, file_content, bound, project_tasks, m, t, phase, tasks, acc,
          issues, i, json_output, stdout, error, exit_code>>

Init ==
    /\ pc = "main"
    /\ \/ file_exists = FALSE /\ file_content = NotJSON
       \/ file_exists = TRUE /\ file_content = NotJSON
       \/ /\ file_exists = TRUE
          /\ \E doc \in WellFormedDocs :
                \E ps \in Defects(doc) : file_content = JSONOf(LackingAll(doc, ps))
    /\ bound = {}
    /\ project_tasks = <<>>
    /\ m = 0
    /\ t = 0
    /\ phase = <<>>
    /\ tasks = <<>>
    /\ acc = <<>>
    /\ issues = <<>>
    /\ i = 0
    /\ json_output = <<>>
    /\ stdout = <<>>
    /\ error = <<>>
    /\ exit_code = <<>>

\* ----------------------------------------------------------------- helpers

\* print(text) at source line `line`, for issue number n (0: for none).
print(out, line, n, text) == Append(out, [line |-> line, i |-> n, text |-> text])

\* str(n) of a natural number.
Digits == <<"0", "1", "2", "3", "4", "5", "6", "7", "8", "9">>

RECURSIVE Str(_)
Str(n) == IF n < 10 THEN <<Digits[n + 1]>> ELSE Str(n \div 10) \o <<Digits[(n % 10) + 1]>>

\* c * n of a one-character str c.
Times(c, n) == [x \in 1..n |-> c]

JsonPath == <<"script_dir/.github/project_tasks.json">>

\* sys.exit(1), and the end of main() or of an uncaught exception.
Exits(code, exc) ==
    /\ pc' = "exited"
    /\ exit_code' = <<code>>
    /\ error' = exc

\* A slip in the exit status: success reported after a diagnostic.
sys_exit_success(code) == Exits(0, <<>>)

\* sys.exit(code), lines 24, 27 and 125.
sys_exit(code) == Exits(code, <<>>)

\* An uncaught KeyError: the interpreter prints the traceback on stderr and the
\* process ends with status 1.
KeyError(k) == <<"KeyError", k>>

Raises(exc) == Exits(1, exc)

\* -------------------------------------------------------------------- main

\* main(), lines 118-125.
MainStart ==
    /\ pc = "main"
    /\ LET out == print(stdout, 121, 0, <<"Reading project tasks from: ">> \o JsonPath)
       IN  IF ~file_exists
           THEN /\ stdout' = print(out, 124, 0, <<"Error: File not found: ">> \o JsonPath)
                /\ sys_exit(1)
           ELSE /\ stdout' = out
                /\ pc' = "parse_project_tasks"
                /\ UNCHANGED <<exit_code, error>>
    /\ UNCHANGED <<file_exists, file_content, bound, project_tasks, m, t, phase,
                   tasks, acc, issues, i, json_output>>

\* The file system: the file is removed after json_path.exists() and before
\* open().
FileRemoved ==
    /\ pc = "parse_project_tasks"
    /\ file_exists
    /\ file_exists' = FALSE
    /\ UNCHANGED <<pc, file_content, bound, project_tasks, m, t, phase, tasks, acc,
                   issues, i, json_output, stdout, error, exit_code>>

\* parse_project_tasks(json_path), called at line 127.
parse_project_tasks ==
    /\ pc = "parse_project_tasks"
    /\ IF ~file_exists
       THEN /\ stdout' = print(stdout, 23, 0, <<"Error: File not found: ">> \o JsonPath)
            /\ sys_exit(1)
            /\ UNCHANGED <<bound, project_tasks>>
       ELSE IF ~file_content.json
       THEN /\ stdout' = print(stdout, 26, 0,
                               <<"Error parsing JSON file: ", "JSONDecodeError">>)
            /\ sys_exit(1)
            /\ UNCHANGED <<bound, project_tasks>>
       ELSE /\ project_tasks' = file_content.value
            /\ bound' = bound \cup {"project_tasks"}
            /\ pc' = "generate_issues_data"
            /\ UNCHANGED <<stdout, exit_code, error>>
    /\ UNCHANGED <<file_exists, file_content, m, t, phase, tasks, acc, issues, i,
                   json_output>>

\* ------------------------------------------------------ the Task Formatter

\* A slip in the title: the space after the bracket left out.
format_issue_title_no_space(milestone_key, task_name) ==
    <<"[">> \o milestone_key \o <<"]">> \o task_name

\* format_issue_title(milestone_key, task_name): f"[{milestone_key}] {task_name}".
format_issue_title(milestone_key, task_name) ==
    <<"[">> \o milestone_key \o <<"]", " ">> \o task_name

\* A slip in the body: the unit tests under the label of the success criteria
\* and the other way round.
format_issue_body_swapped(task, ph) ==
    <<"### Description", NL>>
    \o task.description \o <<NL, NL, "**Success Criteria:** ">> \o task.unit_tests
    \o <<NL, NL, "**Unit Tests:** ">> \o task.success_criteria
    \o <<NL, NL, "**Phase:** ">> \o ph
    \o <<NL, NL, NL, "## Comments on the Issue (you are @copilot in this section)",
         NL, NL, "<comments>", NL, NL, "</comments>">>

\* format_issue_body(task, phase): the f-string of lines 37-51.
format_issue_body(task, ph) ==
    <<"### Description", NL>>
    \o task.description \o <<NL,
       NL,
       "**Success Criteria:** ">> \o task.success_criteria \o <<NL,
       NL,
       "**Unit Tests:** ">> \o task.unit_tests \o <<NL,
       NL,
       "**Phase:** ">> \o ph \o <<NL,
       NL,
       NL,
       "## Comments on the Issue (you are @copilot in this section)", NL,
       NL,
       "<comments>", NL,
       NL,
       "</comments>">>

\* The keys of task that lines 64-65 look up, in the order of evaluation:
\* task['name'], then the f-string's three fields.
KeysRead == <<"name", "description", "success_criteria", "unit_tests">>

\* The first key of ks that d lacks, or "" when it has them all.
RECURSIVE FirstMissing(_, _)
FirstMissing(d, ks) ==
    IF ks = <<>> THEN ""
    ELSE IF Head(ks) \notin DOMAIN d THEN Head(ks)
    ELSE FirstMissing(d, Tail(ks))

\* The dict of lines 63-69.
issue_data(milestone_key, task, ph) ==
    [title |-> format_issue_title(milestone_key, task.name),
     body |-> format_issue_body(task, ph),
     task |-> task,
     milestone |-> milestone_key,
     phase |-> ph]

\* A slip in the list's update: the new record put first.
append_first(list, x) == <<x>> \o list

\* issues.append(issue_data), line 70.
append(list, x) == Append(list, x)

\* generate_issues_data(project_tasks), called at line 128: line 56.
GenerateBegin ==
    /\ pc = "generate_issues_data"
    /\ acc' = <<>>
    /\ m' = 1
    /\ pc' = "for_milestone"
    /\ UNCHANGED <<file_exists, file_content, bound, project_tasks, t, phase, tasks,
                   issues, i, json_output, stdout, error, exit_code>>

\* A slip in the lookups: milestone_data.get('phase', '') and
\* milestone_data.get('tasks', []) in place of the subscripts.
NextMilestoneLenient ==
    /\ pc = "for_milestone"
    /\ m <= Len(project_tasks)
    /\ LET milestone_data == project_tasks[m][2]
       IN  /\ phase' = IF "phase" \in DOMAIN milestone_data
                       THEN milestone_data.phase ELSE <<>>
           /\ tasks' = IF "tasks" \in DOMAIN milestone_data
                       THEN milestone_data.tasks ELSE <<>>
    /\ t' = 1
    /\ pc' = "for_task"
    /\ UNCHANGED <<file_exists, file_content, bound, project_tasks, m, acc, issues,
                   i, json_output, stdout, error, exit_code>>

\* The outer loop's next item, lines 58-60.
NextMilestone ==
    /\ pc = "for_milestone"
    /\ m <= Len(project_tasks)
    /\ LET milestone_data == project_tasks[m][2]
       IN  IF "phase" \notin DOMAIN milestone_data
           THEN /\ Raises(KeyError("phase"))
                /\ UNCHANGED <<phase, tasks, t>>
           ELSE IF "tasks" \notin DOMAIN milestone_data
           THEN /\ phase' = milestone_data.phase
                /\ Raises(KeyError("tasks"))
                /\ UNCHANGED <<tasks, t>>
           ELSE /\ phase' = milestone_data.phase
                /\ tasks' = milestone_data.tasks
                /\ t' = 1
                /\ pc' = "for_task"
                /\ UNCHANGED <<error, exit_code>>
    /\ UNCHANGED <<file_exists, file_content, bound, project_tasks, m, acc, issues,
                   i, json_output, stdout>>

\* The inner loop's next item, lines 62-70.
NextTask ==
    /\ pc = "for_task"
    /\ t <= Len(tasks)
    /\ LET task == tasks[t]
           absent == FirstMissing(task, KeysRead)
       IN  IF absent # ""
           THEN /\ Raises(KeyError(absent))
                /\ UNCHANGED <<acc, t>>
           ELSE /\ acc' = append(acc, issue_data(project_tasks[m][1], task, phase))
                /\ t' = t + 1
                /\ UNCHANGED <<pc, error, exit_code>>
    /\ UNCHANGED <<file_exists, file_content, bound, project_tasks, m, phase, tasks,
                   issues, i, json_output, stdout>>

\* The inner loop ends: on to the next milestone.
TasksDone ==
    /\ pc = "for_task"
    /\ t > Len(tasks)
    /\ m' = m + 1
    /\ pc' = "for_milestone"
    /\ UNCHANGED <<file_exists, file_content, bound, project_tasks, t, phase, tasks,
                   acc, issues, i, json_output, stdout, error, exit_code>>

\* A slip in main(): generate_github_cli_commands called first, display_issues
\* never.
GenerateReturnThenCommands ==
    /\ pc = "for_milestone"
    /\ m > Len(project_tasks)
    /\ issues' = acc
    /\ bound' = bound \cup {"issues"}
    /\ stdout' = print(stdout, 130, 0,
                       <<"Found ">> \o Str(Len(acc))
                       \o <<" tasks to convert to issues", NL>>)
    /\ pc' = "generate_github_cli_commands"
    /\ UNCHANGED <<file_exists, file_content, project_tasks, m, t, phase, tasks, acc,
                   i, json_output, error, exit_code>>

\* The outer loop ends: return issues (line 72), the assignment of line 128
\* and the print of line 130.
GenerateReturn ==
    /\ pc = "for_milestone"
    /\ m > Len(project_tasks)
    /\ issues' = acc
    /\ bound' = bound \cup {"issues"}
    /\ stdout' = print(stdout, 130, 0,
                       <<"Found ">> \o Str(Len(acc))
                       \o <<" tasks to convert to issues", NL>>)
    /\ pc' = "display_issues"
    /\ UNCHANGED <<file_exists, file_content, project_tasks, m, t, phase, tasks, acc,
                   i, json_output, error, exit_code>>

\* ---------------------------------------------------------- display_issues

\* Lines 77-80.
DisplayHeader ==
    /\ pc = "display_issues"
    /\ stdout' = print(print(print(print(stdout,
                    77, 0, Times("=", 80)),
                    78, 0, <<"FORMATTED GITHUB ISSUES FROM PROJECT_TASKS.JSON">>),
                    79, 0, Times("=", 80)),
                    80, 0, <<>>)
    /\ i' = 1
    /\ pc' = "display_loop"
    /\ UNCHANGED <<file_exists, file_content, bound, project_tasks, m, t, phase,
                   tasks, acc, issues, json_output, error, exit_code>>

\* A slip in the order of the prints: the status looked up right after the
\* "Metadata:" line, before the milestone and the phase are printed.
DisplayedUpToMetadata(out, n, issue) ==
    print(print(print(print(print(print(print(print(out,
        83, n, <<"Issue #">> \o Str(n)),
        84, n, Times("-", 40)),
        85, n, <<"Title: ">> \o issue.title),
        86, n, <<>>),
        87, n, <<"Body:">>),
        88, n, issue.body),
        89, n, <<>>),
        90, n, <<"Metadata:">>)

\* The prints of lines 83-92 for issue number n.
DisplayedUpToPhase(out, n, issue) ==
    print(print(print(print(print(print(print(print(print(print(out,
        83, n, <<"Issue #">> \o Str(n)),
        84, n, Times("-", 40)),
        85, n, <<"Title: ">> \o issue.title),
        86, n, <<>>),
        87, n, <<"Body:">>),
        88, n, issue.body),
        89, n, <<>>),
        90, n, <<"Metadata:">>),
        91, n, <<"  Milestone: ">> \o issue.milestone),
        92, n, <<"  Phase: ">> \o issue.phase)

\* The prints of lines 93-96.
DisplayedStatus(out, n, issue) ==
    print(print(print(print(out,
        93, n, <<"  Status: ">> \o issue.task.status),
        94, n, <<>>),
        95, n, Times("=", 80)),
        96, n, <<>>)

\* One turn of the loop of lines 82-96.
DisplayIssue ==
    /\ pc = "display_loop"
    /\ i <= Len(issues)
    /\ LET issue == issues[i]
           out == DisplayedUpToPhase(stdout, i, issue)
       IN  IF "status" \notin DOMAIN issue.task
           THEN /\ stdout' = out
                /\ Raises(KeyError("status"))
                /\ UNCHANGED i
           ELSE /\ stdout' = DisplayedStatus(out, i, issue)
                /\ i' = i + 1
                /\ UNCHANGED <<pc, error, exit_code>>
    /\ UNCHANGED <<file_exists, file_content, bound, project_tasks, m, t, phase,
                   tasks, acc, issues, json_output>>

\* The loop ends and display_issues returns: on to line 133.
DisplayReturn ==
    /\ pc = "display_loop"
    /\ i > Len(issues)
    /\ pc' = "generate_github_cli_commands"
    /\ UNCHANGED <<file_exists, file_content, bound, project_tasks, m, t, phase,
                   tasks, acc, issues, i, json_output, stdout, error, exit_code>>

\* -------------------------------------------- generate_github_cli_commands

\* s.replace(old, new), old one character.
RECURSIVE replace(_, _, _)
replace(s, old, new) ==
    IF s = <<>> THEN <<>>
    ELSE (IF Head(s) = old THEN new ELSE <<Head(s)>>) \o replace(Tail(s), old, new)

\* Line 106.
escaped_title(issue) == replace(issue.title, QUOTE, <<BSLASH, QUOTE>>)

\* A slip in the escaping: the newlines left as they are.
escaped_body_quotes_only(issue) == replace(issue.body, QUOTE, <<BSLASH, QUOTE>>)

\* Line 107.
escaped_body(issue) ==
    replace(replace(issue.body, QUOTE, <<BSLASH, QUOTE>>), NL, <<BSLASH, "n">>)

\* Lines 101-103.
CliHeader ==
    /\ pc = "generate_github_cli_commands"
    /\ stdout' = print(print(print(stdout,
                    101, 0, <<"GITHUB CLI COMMANDS TO CREATE ISSUES:">>),
                    102, 0, Times("-", 40)),
                    103, 0, <<>>)
    /\ i' = 1
    /\ pc' = "cli_loop"
    /\ UNCHANGED <<file_exists, file_content, bound, project_tasks, m, t, phase,
                   tasks, acc, issues, json_output, error, exit_code>>

\* A slip in the loop: the escaped title and body stored back in the record.
CliIssueInPlace ==
    /\ pc = "cli_loop"
    /\ i <= Len(issues)
    /\ LET issue == issues[i]
           title == escaped_title(issue)
           body == escaped_body(issue)
       IN  /\ stdout' = print(print(print(print(print(stdout,
                109, i, <<"# Issue ">> \o Str(i) \o <<": ">> \o issue.task.name),
                110, i, <<"gh issue create ", BSLASH>>),
                111, i, <<"  --title ", QUOTE>> \o title \o <<QUOTE, " ", BSLASH>>),
                112, i, <<"  --body ", QUOTE>> \o body \o <<QUOTE>>),
                113, i, <<>>)
           /\ issues' = [issues EXCEPT ![i].title = title, ![i].body = body]
    /\ i' = i + 1
    /\ UNCHANGED <<pc, file_exists, file_content, bound, project_tasks, m, t, phase,
                   tasks, acc, json_output, error, exit_code>>

\* One turn of the loop of lines 105-113.
CliIssue ==
    /\ pc = "cli_loop"
    /\ i <= Len(issues)
    /\ LET issue == issues[i]
           title == escaped_title(issue)
           body == escaped_body(issue)
       IN  stdout' = print(print(print(print(print(stdout,
                109, i, <<"# Issue ">> \o Str(i) \o <<": ">> \o issue.task.name),
                110, i, <<"gh issue create ", BSLASH>>),
                111, i, <<"  --title ", QUOTE>> \o title \o <<QUOTE, " ", BSLASH>>),
                112, i, <<"  --body ", QUOTE>> \o body \o <<QUOTE>>),
                113, i, <<>>)
    /\ i' = i + 1
    /\ UNCHANGED <<pc, file_exists, file_content, bound, project_tasks, m, t, phase,
                   tasks, acc, issues, json_output, error, exit_code>>

\* The loop ends and generate_github_cli_commands returns: on to line 136.
CliReturn ==
    /\ pc = "cli_loop"
    /\ i > Len(issues)
    /\ pc' = "json_output"
    /\ UNCHANGED <<file_exists, file_content, bound, project_tasks, m, t, phase,
                   tasks, acc, issues, i, json_output, stdout, error, exit_code>>

\* -------------------------------------------------------- the JSON output

\* json.dumps of a str with ensure_ascii=False: between double quotes, with
\* the double quote, the backslash and the newline escaped.
json_escape(c) ==
    IF c = QUOTE THEN <<BSLASH, QUOTE>>
    ELSE IF c = BSLASH THEN <<BSLASH, BSLASH>>
    ELSE IF c = NL THEN <<BSLASH, "n">>
    ELSE <<c>>

RECURSIVE json_escaped(_)
json_escaped(s) ==
    IF s = <<>> THEN <<>> ELSE json_escape(Head(s)) \o json_escaped(Tail(s))

dumps_str(s) == <<QUOTE>> \o json_escaped(s) \o <<QUOTE>>

\* The members of a dict, its keys in ks (the insertion order), at indent=2
\* one level inside the list.
RECURSIVE dumps_members(_, _)
dumps_members(d, ks) ==
    IF ks = <<>> THEN <<>>
    ELSE <<NL, "    ">> \o dumps_str(<<Head(ks)>>) \o <<":", " ">>
         \o dumps_str(d[Head(ks)])
         \o (IF Len(ks) > 1 THEN <<",">> ELSE <<>>)
         \o dumps_members(d, Tail(ks))

dumps_dict(d, ks) ==
    <<"{">> \o dumps_members(d, ks) \o <<NL, "  ", "}">>

RECURSIVE dumps_items(_, _)
dumps_items(list, ks) ==
    IF list = <<>> THEN <<>>
    ELSE <<NL, "  ">> \o dumps_dict(Head(list), ks)
         \o (IF Len(list) > 1 THEN <<",">> ELSE <<>>)
         \o dumps_items(Tail(list), ks)

\* json.dumps(list, indent=2, ensure_ascii=False) of a list of dicts whose
\* keys, in insertion order, are ks.
dumps(list, ks) ==
    IF list = <<>> THEN <<"[", "]">>
    ELSE <<"[">> \o dumps_items(list, ks) \o <<NL, "]">>

\* The keys of the dict of lines 138-143, in insertion order.
OutputKeys == <<"title", "body", "milestone", "phase">>

\* A slip in the dict: the milestone under 'phase' and the phase under
\* 'milestone'.
output_of_swapped(issue) ==
    [title |-> issue.title,
     body |-> issue.body,
     milestone |-> issue.phase,
     phase |-> issue.milestone]

\* The dict of lines 138-143.
output_of(issue) ==
    [title |-> issue.title,
     body |-> issue.body,
     milestone |-> issue.milestone,
     phase |-> issue.phase]

\* Lines 136-145, and the end of main(): the process exits with status 0.
JsonOutput ==
    /\ pc = "json_output"
    /\ LET out == [n \in 1..Len(issues) |-> output_of(issues[n])]
       IN  /\ json_output' = out
           /\ stdout' = print(print(print(stdout,
                    136, 0, <<"JSON OUTPUT:">>),
                    137, 0, Times("-", 40)),
                    145, 0, dumps(out, OutputKeys))
    /\ bound' = bound \cup {"json_output"}
    /\ Exits(0, <<>>)
    /\ UNCHANGED <<file_exists, file_content, project_tasks, m, t, phase, tasks, acc,
                   issues, i>>

Next ==
    \/ MainStart
    \/ FileRemoved
    \/ parse_project_tasks
    \/ GenerateBegin
    \/ NextMilestone
    \/ NextTask
    \/ TasksDone
    \/ GenerateReturn
    \/ DisplayHeader
    \/ DisplayIssue
    \/ DisplayReturn
    \/ CliHeader
    \/ CliIssue
    \/ CliReturn
    \/ JsonOutput

Spec == Init /\ [][Next]_vars

\* ------------------------------------------------ what the claims refer to

\* The tasks of a document in its own order, each with its milestone's key and
\* phase: milestone after milestone, and task after task within one.
RECURSIVE Flattened(_)
Flattened(doc) ==
    IF doc = <<>> THEN <<>>
    ELSE LET key == Head(doc)[1]
             data == Head(doc)[2]
         IN  [n \in 1..Len(data.tasks) |->
                 [milestone |-> key, phase |-> data.phase, task |-> data.tasks[n]]]
             \o Flattened(Tail(doc))

RECURSIVE TaskCount(_)
TaskCount(doc) ==
    IF doc = <<>> THEN 0 ELSE Len(Head(doc)[2].tasks) + TaskCount(Tail(doc))

\* The keys generate_issues_data needs that the document lacks somewhere.
AbsentKeys(doc) ==
    {k \in {"phase", "tasks"} : \E n \in 1..Len(doc) : k \notin DOMAIN doc[n][2]}
    \cup {k \in {"name", "description", "success_criteria", "unit_tests"} :
            \E n \in 1..Len(doc) :
                /\ "tasks" \in DOMAIN doc[n][2]
                /\ \E j \in 1..Len(doc[n][2].tasks) : k \notin DOMAIN doc[n][2].tasks[j]}

\* Some task of the document lacks status.
StatusAbsent(doc) ==
    \E n \in 1..Len(doc) :
        /\ "tasks" \in DOMAIN doc[n][2]
        /\ \E j \in 1..Len(doc[n][2].tasks) : "status" \notin DOMAIN doc[n][2].tasks[j]

Parsed == "project_tasks" \in bound

Generated == "issues" \in bound

Exited == pc = "exited"

\* The block of standard output a print call belongs to (0: to none).
Block(line) ==
    IF line \in 77..96 THEN 1
    ELSE IF line \in 101..113 THEN 2
    ELSE IF line \in 136..145 THEN 3
    ELSE 0

\* The print calls, by source line and issue number, of the n-th issue in
\* block 1 and in block 2.
Calls(lines, n) == [k \in 1..Len(lines) |-> <<lines[k], n>>]

DisplayLines == <<83, 84, 85, 86, 87, 88, 89, 90, 91, 92, 93, 94, 95, 96>>

CliLines == <<109, 110, 111, 112, 113>>

RECURSIVE ForIssues(_, _, _)
ForIssues(lines, from, to) ==
    IF from > to THEN <<>>
    ELSE Calls(lines, from) \o ForIssues(lines, from + 1, to)

\* The print calls of a whole run over n issues.
FullRun(n) ==
    Calls(<<121, 130, 77, 78, 79, 80>>, 0) \o ForIssues(DisplayLines, 1, n)
    \o Calls(<<101, 102, 103>>, 0) \o ForIssues(CliLines, 1, n)
    \o Calls(<<136, 137, 145>>, 0)

\* The print calls made so far.
Printed == [k \in 1..Len(stdout) |-> <<stdout[k].line, stdout[k].i>>]

IsPrefix(s, r) == Len(s) <= Len(r) /\ s = SubSeq(r, 1, Len(s))

\* The text of the print call of `line` for issue n.
TextOf(line, n) ==
    (CHOOSE e \in {stdout[k] : k \in 1..Len(stdout)} : e.line = line /\ e.i = n).text

HasPrinted(line, n) == \E k \in 1..Len(stdout) : stdout[k].line = line /\ stdout[k].i = n

\* ------------------------------------------------------------------ claims

\* C1: generate_issues_data returns one record per task of the document and no
\* others, in the flattened order (milestone after milestone in key order,
\* task after task within a milestone), so as many records as the milestones
\* hold tasks together; it returns them for every document that has the keys
\* it reads.
C1_OneRecordPerTaskInOrder ==
    /\ (Parsed /\ Exited /\ AbsentKeys(project_tasks) = {}) => Generated
    /\ Generated =>
        /\ Len(issues) = TaskCount(project_tasks)
        /\ \A n \in 1..Len(issues) :
            /\ issues[n].task = Flattened(project_tasks)[n].task
            /\ issues[n].milestone = Flattened(project_tasks)[n].milestone

\* Three tasks over two milestones were turned into three records.
C1_Witness ==
    /\ Generated
    /\ Len(issues) = 3
    /\ Len(project_tasks) = 2
    /\ Len(project_tasks[1][2].tasks) = 2
    /\ issues[1].task # issues[2].task

\* C2: the record of task T of milestone key K has the title "[" K "] " T.name,
\* with K and T.name as they are (no character escaped, none dropped), and
\* carries milestone = K, phase = the milestone's phase and task = T.
C2_TitleAndFields ==
    Generated =>
        \A n \in 1..Len(issues) :
            LET item == Flattened(project_tasks)[n]
                K == item.milestone
                name == item.task.name
                title == issues[n].title
            IN  /\ Len(title) = Len(K) + Len(name) + 3
                /\ title[1] = "["
                /\ SubSeq(title, 2, Len(K) + 1) = K
                /\ title[Len(K) + 2] = "]"
                /\ title[Len(K) + 3] = " "
                /\ SubSeq(title, Len(K) + 4, Len(title)) = name
                /\ issues[n].milestone = K
                /\ issues[n].phase = item.phase
                /\ issues[n].task = item.task

\* A record whose milestone key holds a double quote and whose task name holds
\* a double quote and a newline.
C2_Witness ==
    /\ Generated
    /\ \E n \in 1..Len(issues) :
        /\ \E k \in 1..Len(issues[n].milestone) : issues[n].milestone[k] = QUOTE
        /\ \E k \in 1..Len(issues[n].task.name) : issues[n].task.name[k] = NL
        /\ \E k \in 1..Len(issues[n].task.name) : issues[n].task.name[k] = QUOTE

\* The fixed text of the body: before the description, before each of the
\* three other values, and after the phase.
BodyHead == <<"### Description", NL>>

BodyLabels ==
    << <<NL, NL, "**Success Criteria:** ">>,
       <<NL, NL, "**Unit Tests:** ">>,
       <<NL, NL, "**Phase:** ">> >>

BodyTrailer ==
    <<NL, NL, NL, "## Comments on the Issue (you are @copilot in this section)",
      NL, NL, "<comments>", NL, NL, "</comments>">>

\* Other names and statuses a task may have.
OtherNames == {<<>>, <<"x">>, <<QUOTE, "### Description", NL>>}

\* C3: the body is the fixed template with the description, the success
\* criteria, the unit tests and the phase, in this order and as they are, each
\* after its label, and then the trailer, the same for every input, with its
\* heading and its empty <comments> block; the task's name and status have no
\* part in it.
C3_BodyTemplate ==
    Generated =>
        \A n \in 1..Len(issues) :
            LET task == issues[n].task
                body == issues[n].body
                d == task.description
                s == task.success_criteria
                u == task.unit_tests
                ph == issues[n].phase
                at2 == Len(BodyHead) + Len(d)
                at3 == at2 + Len(BodyLabels[1]) + Len(s)
                at4 == at3 + Len(BodyLabels[2]) + Len(u)
                at5 == at4 + Len(BodyLabels[3]) + Len(ph)
            IN  /\ Len(body) = at5 + Len(BodyTrailer)
                /\ SubSeq(body, 1, Len(BodyHead)) = BodyHead
                /\ SubSeq(body, Len(BodyHead) + 1, at2) = d
                /\ SubSeq(body, at2 + 1, at2 + Len(BodyLabels[1])) = BodyLabels[1]
                /\ SubSeq(body, at2 + Len(BodyLabels[1]) + 1, at3) = s
                /\ SubSeq(body, at3 + 1, at3 + Len(BodyLabels[2])) = BodyLabels[2]
                /\ SubSeq(body, at3 + Len(BodyLabels[2]) + 1, at4) = u
                /\ SubSeq(body, at4 + 1, at4 + Len(BodyLabels[3])) = BodyLabels[3]
                /\ SubSeq(body, at4 + Len(BodyLabels[3]) + 1, at5) = ph
                /\ SubSeq(body, at5 + 1, Len(body)) = BodyTrailer
                /\ body[at5 + 4]
                      = "## Comments on the Issue (you are @copilot in this section)"
                /\ SubSeq(body, Len(body) - 3, Len(body))
                      = <<"<comments>", NL, NL, "</comments>">>
                /\ \A nm \in OtherNames :
                    /\ format_issue_body(
                          [name |-> nm, description |-> d, success_criteria |-> s,
                           unit_tests |-> u], ph) = body
                    /\ \A st \in OtherNames :
                          format_issue_body(
                              [name |-> nm, description |-> d, success_criteria |-> s,
                               unit_tests |-> u, status |-> st], ph) = body

\* Two records of one milestone with different bodies, one of a description
\* with a double quote and a newline and of empty unit tests.
C3_Witness ==
    /\ Generated
    /\ \E n, k \in 1..Len(issues) :
        /\ issues[n].phase = issues[k].phase
        /\ issues[n].body # issues[k].body
        /\ issues[n].task.unit_tests = <<>>
        /\ \E x \in 1..Len(issues[n].task.description) :
              issues[n].task.description[x] = NL

\* C4: when a milestone lacks phase or tasks, or a task lacks name,
\* description, success_criteria or unit_tests, generate_issues_data ends in a
\* KeyError that names a key the document lacks and returns nothing, whatever
\* it had built from the milestones and tasks before; no print call of the
\* three blocks is made.
C4_MissingKeyAborts ==
    (Parsed /\ AbsentKeys(project_tasks) # {}) =>
        /\ ~Generated
        /\ issues = <<>>
        /\ pc \in {"generate_issues_data", "for_milestone", "for_task", "exited"}
        /\ \A k \in 1..Len(stdout) : Block(stdout[k].line) = 0
        /\ Exited =>
            /\ Len(error) = 2
            /\ error[1] = "KeyError"
            /\ error[2] \in AbsentKeys(project_tasks)
            /\ exit_code = <<1>>

\* The process ended in the second milestone, on a task without unit_tests,
\* with records of earlier tasks built.
C4_Witness ==
    /\ Exited
    /\ error = KeyError("unit_tests")
    /\ m = 2
    /\ Len(acc) >= 2
    /\ ~Generated

\* Whether the input file is missing or holds no JSON.
Unusable == ~file_exists \/ ~file_content.json

\* C5, as stated: exit code 1 when the input file does not exist or is not
\* valid JSON, exit code 0 in every other run, after all output.
C5_ExitCodeOneOnlyForFileErrors ==
    Exited =>
        /\ exit_code = IF Unusable THEN <<1>> ELSE <<0>>
        /\ exit_code = <<0>> => Printed = FullRun(Len(issues))

\* C5, amended: exit code 1 when the input file does not exist or is not
\* valid JSON, and also, by an uncaught KeyError, when a milestone lacks phase
\* or tasks or a task lacks name, description, success_criteria, unit_tests or
\* status; exit code 0 in every other run, after all output.
C5_ExitCode ==
    Exited =>
        /\ exit_code =
              IF Unusable
                 \/ AbsentKeys(file_content.value) # {}
                 \/ StatusAbsent(file_content.value)
              THEN <<1>> ELSE <<0>>
        /\ exit_code = <<0>> => Printed = FullRun(Len(issues))
        /\ (exit_code = <<1>> /\ ~Unusable) => (Len(error) = 2 /\ error[1] = "KeyError")

\* The file was read and parsed, and the process ended with status 1.
C5_Witness ==
    /\ Exited
    /\ Parsed
    /\ ~Unusable
    /\ exit_code = <<1>>
    /\ error = KeyError("name")

\* The concatenation of a sequence of strs.
RECURSIVE Joined(_)
Joined(ss) == IF ss = <<>> THEN <<>> ELSE Head(ss) \o Joined(Tail(ss))

\* s with every double quote turned into backslash, quote.
QuotesEscaped(s) ==
    Joined([k \in 1..Len(s) |-> IF s[k] = QUOTE THEN <<BSLASH, QUOTE>> ELSE <<s[k]>>])

\* s with every double quote turned into backslash, quote and every newline
\* into backslash, n.
QuotesAndNewlinesEscaped(s) ==
    Joined([k \in 1..Len(s) |->
               IF s[k] = QUOTE THEN <<BSLASH, QUOTE>>
               ELSE IF s[k] = NL THEN <<BSLASH, "n">>
               ELSE <<s[k]>>])

\* C6: in block 2 the body argument of a command is the issue's body with
\* every double quote replaced by backslash-quote and every newline by
\* backslash-n, and nothing else changed; the title argument is the title with
\* every double quote replaced by backslash-quote; block 1 and the records
\* serialized for block 3 hold the title and the body as they are.
C6_CommandEscaping ==
    /\ \A k \in 1..Len(stdout) :
        LET e == stdout[k]
        IN  /\ e.line = 112 =>
                e.text = <<"  --body ", QUOTE>>
                         \o QuotesAndNewlinesEscaped(issues[e.i].body) \o <<QUOTE>>
            /\ e.line = 111 =>
                e.text = <<"  --title ", QUOTE>>
                         \o QuotesEscaped(issues[e.i].title) \o <<QUOTE, " ", BSLASH>>
            /\ e.line = 85 => e.text = <<"Title: ">> \o issues[e.i].title
            /\ e.line = 88 => e.text = issues[e.i].body
    /\ "json_output" \in bound =>
        /\ Len(json_output) = Len(issues)
        /\ \A n \in 1..Len(issues) :
            /\ json_output[n].title = issues[n].title
            /\ json_output[n].body = issues[n].body

Holds(s, c) == \E k \in 1..Len(s) : s[k] = c

\* The command of an issue is printed whose title holds a double quote and a
\* newline and whose body holds a double quote, a newline and a backslash.
C6_Witness ==
    \E k \in 1..Len(stdout) :
        /\ stdout[k].line = 112
        /\ Holds(issues[stdout[k].i].title, QUOTE)
        /\ Holds(issues[stdout[k].i].title, NL)
        /\ Holds(issues[stdout[k].i].body, QUOTE)
        /\ Holds(issues[stdout[k].i].body, BSLASH)
        /\ ~Holds(stdout[k].text, NL)

\* A reader of JSON text (json.loads), for a list of objects whose members are
\* strs: a value is returned with the place after it.
Whitespace == {NL, " ", "  ", "    "}

RECURSIVE SkipWhitespace(_, _)
SkipWhitespace(s, p) ==
    IF p <= Len(s) /\ s[p] \in Whitespace THEN SkipWhitespace(s, p + 1) ELSE p

\* The character a backslash escape stands for.
Unescaped(c) == IF c = "n" THEN NL ELSE c

\* The str whose opening quote is before place p.
RECURSIVE ReadString(_, _, _)
ReadString(s, p, sofar) ==
    IF s[p] = QUOTE THEN [value |-> sofar, next |-> p + 1]
    ELSE IF s[p] = BSLASH
    THEN ReadString(s, p + 2, Append(sofar, Unescaped(s[p + 1])))
    ELSE ReadString(s, p + 1, Append(sofar, s[p]))

\* The members of the object whose opening brace is before place p, as
\* <<key, value>> pairs.
RECURSIVE ReadMembers(_, _, _)
ReadMembers(s, p, sofar) ==
    LET key == ReadString(s, SkipWhitespace(s, p) + 1, <<>>)
        colon == SkipWhitespace(s, key.next)
        val == ReadString(s, SkipWhitespace(s, colon + 1) + 1, <<>>)
        after == SkipWhitespace(s, val.next)
        members == Append(sofar, <<key.value, val.value>>)
    IN  IF s[after] = ","
        THEN ReadMembers(s, after + 1, members)
        ELSE [value |-> members, next |-> after + 1]

\* The dict of a sequence of <<key, value>> pairs whose keys are one symbol.
DictOf(members) ==
    [k \in {members[n][1][1] : n \in 1..Len(members)} |->
        (CHOOSE pair \in {members[n] : n \in 1..Len(members)} : pair[1][1] = k)[2]]

\* The items of the list whose opening bracket is before place p.
RECURSIVE ReadItems(_, _, _)
ReadItems(s, p, sofar) ==
    LET at == SkipWhitespace(s, p)
    IN  IF s[at] = "]" THEN sofar
        ELSE LET object == ReadMembers(s, at + 1, <<>>)
                 after == SkipWhitespace(s, object.next)
                 items == Append(sofar, DictOf(object.value))
             IN  IF s[after] = "," THEN ReadItems(s, after + 1, items) ELSE items

json_loads(s) == ReadItems(s, SkipWhitespace(s, 1) + 1, <<>>)

\* C7: the array serialized as block 3 has one element per record, in the
\* order of the records, each with the fields title, body, milestone and phase
\* and no other, equal to the record's: reading block 3 back gives these four
\* fields of every record.
C7_JsonRoundTrip ==
    HasPrinted(145, 0) =>
        LET read == json_loads(TextOf(145, 0))
        IN  /\ Len(read) = Len(issues)
            /\ \A n \in 1..Len(issues) :
                /\ DOMAIN read[n] = {"title", "body", "milestone", "phase"}
                /\ read[n].title = issues[n].title
                /\ read[n].body = issues[n].body
                /\ read[n].milestone = issues[n].milestone
                /\ read[n].phase = issues[n].phase
                /\ DOMAIN json_output[n] = DOMAIN read[n]

\* Block 3 is printed for three records, one with a backslash before an n in
\* its body, a double quote in its milestone and a newline in its phase.
C7_Witness ==
    /\ HasPrinted(145, 0)
    /\ Len(issues) = 3
    /\ \E n \in 1..Len(issues) :
        /\ \E k \in 1..(Len(issues[n].body) - 1) :
              issues[n].body[k] = BSLASH /\ issues[n].body[k + 1] = "n"
        /\ Holds(issues[n].milestone, QUOTE)
        /\ Holds(issues[n].phase, NL)

\* What generate_issues_data builds from a document.
RecordsOf(doc) ==
    [n \in 1..Len(Flattened(doc)) |->
        LET item == Flattened(doc)[n]
        IN  [title |-> format_issue_title(item.milestone, item.task.name),
             body |-> format_issue_body(item.task, item.phase),
             task |-> item.task,
             milestone |-> item.milestone,
             phase |-> item.phase]]

\* C8: generate_issues_data leaves the document as it was parsed and its
\* result is determined by the document; no later step changes the document
\* or a record: from the return on, and still after the three blocks, issues
\* is what generate_issues_data returned.
C8_NothingModified ==
    /\ [](Parsed => project_tasks = file_content.value)
    /\ [](Generated => (issues = acc /\ issues = RecordsOf(project_tasks)))
    /\ [][Parsed => project_tasks' = project_tasks]_vars
    /\ [][Generated => issues' = issues]_vars
    /\ [][file_content' = file_content]_vars

\* The three blocks are printed for records with quotes and newlines.
C8_Witness ==
    /\ Exited
    /\ exit_code = <<0>>
    /\ Len(issues) >= 2
    /\ \E n \in 1..Len(issues) : Holds(issues[n].title, QUOTE) /\ Holds(issues[n].body, NL)
    /\ issues = acc

\* C9: one pass in the order read, parse, generate, block 1, block 2, block 3.
\* Nothing of a block is printed before the records are generated; the print
\* calls made are at every moment a beginning of the full run's (each block
\* whole before the next begins); the blocks list the issues in the order of
\* the records, blocks 1 and 2 numbering them from 1; with the file missing or
\* not JSON the process ends right after the diagnostic with no block printed.
C9_LinearPass ==
    /\ Generated => Parsed
    /\ ~Generated => \A k \in 1..Len(stdout) : Block(stdout[k].line) = 0
    /\ Generated => IsPrefix(Printed, FullRun(Len(issues)))
    /\ \A k \in 1..Len(stdout) :
        LET e == stdout[k]
        IN  /\ e.line = 83 => e.text = <<"Issue #">> \o Str(e.i)
            /\ e.line = 85 => e.text = <<"Title: ">> \o issues[e.i].title
            /\ e.line = 109 =>
                e.text = <<"# Issue ">> \o Str(e.i) \o <<": ">> \o issues[e.i].task.name
            /\ e.line = 111 => SubSeq(e.text, 3, Len(e.text) - 3)
                                  = QuotesEscaped(issues[e.i].title)
            /\ e.line = 145 =>
                /\ Len(json_loads(e.text)) = Len(issues)
                /\ \A n \in 1..Len(issues) : json_loads(e.text)[n].title = issues[n].title
            /\ e.line \in {23, 26, 124} => (Exited /\ k = Len(stdout) /\ ~Parsed)
    /\ (Exited /\ Unusable) =>
        /\ ~Parsed
        /\ Printed \in {<< <<121, 0>>, <<124, 0>> >>,
                        << <<121, 0>>, <<23, 0>> >>,
                        << <<121, 0>>, <<26, 0>> >>}
    /\ (Exited /\ exit_code = <<0>>) => Printed = FullRun(Len(issues))

\* The run over three records is over, all three blocks printed.
C9_Witness ==
    /\ Exited
    /\ exit_code = <<0>>
    /\ Len(issues) = 3
    /\ Printed = FullRun(3)

\* The first record whose task has no status.
FirstWithoutStatus ==
    CHOOSE k \in 1..Len(issues) :
        /\ "status" \notin DOMAIN issues[k].task
        /\ \A j \in 1..(k - 1) : "status" \in DOMAIN issues[j].task

\* C10: when a task lacks only status, generate_issues_data returns a record
\* for it all the same; the KeyError comes in display_issues: block 1 is
\* printed whole for the issues before it, and for it up to its title, body,
\* milestone and phase; the process then ends with status 1, and nothing of
\* block 2 or block 3 is printed.
C10_StatusFailsInDisplay ==
    (Parsed /\ AbsentKeys(project_tasks) = {} /\ StatusAbsent(project_tasks)) =>
        /\ \A k \in 1..Len(stdout) : Block(stdout[k].line) \in {0, 1}
        /\ Exited =>
            /\ Generated
            /\ Len(issues) = TaskCount(project_tasks)
            /\ error = KeyError("status")
            /\ exit_code = <<1>>
            /\ LET k == FirstWithoutStatus
               IN  /\ Printed = Calls(<<121, 130, 77, 78, 79, 80>>, 0)
                                \o ForIssues(DisplayLines, 1, k - 1)
                                \o Calls(<<83, 84, 85, 86, 87, 88, 89, 90, 91, 92>>, k)
                   /\ TextOf(85, k) = <<"Title: ">> \o issues[k].title
                   /\ TextOf(88, k) = issues[k].body
                   /\ TextOf(91, k) = <<"  Milestone: ">> \o issues[k].milestone
                   /\ TextOf(92, k) = <<"  Phase: ">> \o issues[k].phase

\* The process ended on the third issue, the first two displayed whole.
C10_Witness ==
    /\ Exited
    /\ error = KeyError("status")
    /\ Len(issues) = 3
    /\ FirstWithoutStatus = 3
    /\ HasPrinted(96, 2)
    /\ HasPrinted(92, 3)

====
